---- MODULE Spec2Model ----
(***************************************************************************)
(* Model of quantum_teleportation.ipynb: the text <-> bits codec           *)
(* (text_to_bits, text_from_bits), the teleportation circuit built by      *)
(* build_teleportation_circuit and its execution on the ideal qasm         *)
(* simulator, and the per-bit loop of send_quantum_message.                *)
(*                                                                         *)
(* Representation choices                                                  *)
(*  - a text is a sequence of Unicode code points;                         *)
(*  - a Python str of binary digits is a sequence of the characters        *)
(*    "0" and "1";                                                         *)
(*  - a Python int (unbounded) is its sequence of binary digits, most      *)
(*    significant first, without leading zeros (zero is the empty          *)
(*    sequence);                                                           *)
(*  - the 3-qubit state is a vector of integer amplitudes over the basis   *)
(*    states 0..7 (qubit 0 is the least significant bit), kept             *)
(*    unnormalised: the physical state is amp / ||amp||, and the weight    *)
(*    of the branch taken so far is ||amp||^2 / 2^nh, nh being the number  *)
(*    of Hadamard gates applied.                                           *)
(***************************************************************************)
EXTENDS Integers, Sequences, FiniteSets, TLC

\* ---------------------------------------------------------------- bounds
MaxChars == 2
MaxRawBits == 9
MaxNoisyChars == 1
MaxLiveChars == 1
MaxFlips == 1
MaxShots == 6
MaxBackends == 2
MaxPending == 1

\* code points used for messages: NUL, "h", "i", U+00E9 (two UTF-8 bytes)
Alphabet == {0, 104, 105, 233}

RECURSIVE SeqsUpTo(_, _)
SeqsUpTo(S, n) ==
    IF n = 0 THEN {<< >>}
    ELSE LET shorter == SeqsUpTo(S, n - 1)
         IN shorter \cup {Append(s, x) : s \in {t \in shorter : Len(t) = n - 1}, x \in S}

\* ------------------------------------------------------ sequence helpers
RECURSIVE Repeat(_, _)
Repeat(x, n) == IF n <= 0 THEN << >> ELSE <<x>> \o Repeat(x, n - 1)

RECURSIVE StripLeading(_, _)
StripLeading(s, x) ==
    IF s = << >> THEN << >>
    ELSE IF Head(s) = x THEN StripLeading(Tail(s), x) ELSE s

RECURSIVE Pow2(_)
Pow2(n) == IF n = 0 THEN 1 ELSE 2 * Pow2(n - 1)

\* ------------------------------------------------------ UTF-8 (str.encode)
\* bytes of one code point, errors='surrogatepass' (surrogates are encoded
\* like any other three-byte code point)
EncodeCodePoint(cp) ==
    IF cp < 128 THEN <<cp>>
    ELSE IF cp < 2048 THEN <<192 + (cp \div 64), 128 + (cp % 64)>>
    ELSE IF cp < 65536
         THEN <<224 + (cp \div 4096), 128 + ((cp \div 64) % 64), 128 + (cp % 64)>>
    ELSE <<240 + (cp \div 262144), 128 + ((cp \div 4096) % 64),
           128 + ((cp \div 64) % 64), 128 + (cp % 64)>>

RECURSIVE encode(_)
encode(text) ==
    IF text = << >> THEN << >>
    ELSE EncodeCodePoint(Head(text)) \o encode(Tail(text))

\* ----------------------------------------------------- UTF-8 (bytes.decode)
IsCont(b) == b >= 128 /\ b <= 191

\* number of bytes of the well-formed sequence that starts bs, 0 if none
\* (overlong forms and code points above U+10FFFF are rejected; surrogates
\* ED A0..BF xx are accepted under errors='surrogatepass')
SeqLenAt(bs) ==
    LET b1 == bs[1] IN
    IF b1 < 128 THEN 1
    ELSE IF b1 >= 194 /\ b1 <= 223
         THEN IF Len(bs) >= 2 /\ IsCont(bs[2]) THEN 2 ELSE 0
    ELSE IF b1 >= 224 /\ b1 <= 239
         THEN IF /\ Len(bs) >= 3 /\ IsCont(bs[2]) /\ IsCont(bs[3])
                 /\ (b1 = 224 => bs[2] >= 160)
              THEN 3 ELSE 0
    ELSE IF b1 >= 240 /\ b1 <= 244
         THEN IF /\ Len(bs) >= 4 /\ IsCont(bs[2]) /\ IsCont(bs[3]) /\ IsCont(bs[4])
                 /\ (b1 = 240 => bs[2] >= 144)
                 /\ (b1 = 244 => bs[2] <= 143)
              THEN 4 ELSE 0
    ELSE 0

DecodeCodePoint(bs, n) ==
    IF n = 1 THEN bs[1]
    ELSE IF n = 2 THEN (bs[1] - 192) * 64 + (bs[2] - 128)
    ELSE IF n = 3 THEN (bs[1] - 224) * 4096 + (bs[2] - 128) * 64 + (bs[3] - 128)
    ELSE (bs[1] - 240) * 262144 + (bs[2] - 128) * 4096
         + (bs[3] - 128) * 64 + (bs[4] - 128)

Ok(text) == [ok |-> TRUE, text |-> text, err |-> "none"]
Raise(e) == [ok |-> FALSE, text |-> << >>, err |-> e]

RECURSIVE decode(_)
decode(bs) ==
    IF bs = << >> THEN Ok(<< >>)
    ELSE LET n == SeqLenAt(bs) IN
         IF n = 0 THEN Raise("UnicodeDecodeError")
         ELSE LET rest == decode(SubSeq(bs, n + 1, Len(bs))) IN
              IF rest.ok THEN Ok(<<DecodeCodePoint(bs, n)>> \o rest.text)
              ELSE rest

\* --------------------------------------------------------- Python int
\* the 8 binary digits of a byte, most significant first
ByteDigits(b) == [k \in 1..8 |-> (b \div Pow2(8 - k)) % 2]

RECURSIVE BytesDigits(_)
BytesDigits(bs) ==
    IF bs = << >> THEN << >> ELSE ByteDigits(Head(bs)) \o BytesDigits(Tail(bs))

\* int.from_bytes(bs, 'big'): the value keeps no leading zero digits
int_from_bytes(bs) == StripLeading(BytesDigits(bs), 0)

\* bin(n)[2:]
bin(n) == IF n = << >> THEN <<"0">> ELSE [k \in 1..Len(n) |-> IF n[k] = 1 THEN "1" ELSE "0"]

\* str.zfill(width)
zfill(s, width) == Repeat("0", width - Len(s)) \o s

\* int(bits, 2): ValueError on the empty string
int_base2(bits) == StripLeading([k \in 1..Len(bits) |-> IF bits[k] = "1" THEN 1 ELSE 0], 0)

bit_length(n) == Len(n)

DigitsValue(d) ==
    d[1] * 128 + d[2] * 64 + d[3] * 32 + d[4] * 16 + d[5] * 8 + d[6] * 4 + d[7] * 2 + d[8]

\* n.to_bytes(length, 'big')
to_bytes(n, length) ==
    LET padded == Repeat(0, 8 * length - Len(n)) \o n
    IN [k \in 1..length |-> DigitsValue(SubSeq(padded, 8 * k - 7, 8 * k))]

\* ------------------------------------------------------------- the codec
\* text_to_bits without the zfill to whole bytes
text_to_bits_nopad(text) == bin(int_from_bytes(encode(text)))

\* text_to_bits rounding the width down instead of up
text_to_bits_floor(text) ==
    LET bits == bin(int_from_bytes(encode(text)))
    IN zfill(bits, 8 * (Len(bits) \div 8))

text_to_bits(text) ==
    LET bits == bin(int_from_bytes(encode(text)))
    IN zfill(bits, 8 * ((Len(bits) + 7) \div 8))

\* text_from_bits that insists on whole bytes
text_from_bits_strict(bits) ==
    IF bits = << >> \/ Len(bits) % 8 # 0 THEN Raise("ValueError")
    ELSE LET n == int_base2(bits)
             r == decode(to_bytes(n, (bit_length(n) + 7) \div 8))
         IN IF r.ok /\ r.text = << >> THEN Ok(<<0>>) ELSE r

\* text_from_bits decoding with errors='replace'
text_from_bits_replace(bits) ==
    IF bits = << >> THEN Raise("ValueError")
    ELSE LET n == int_base2(bits)
             r == decode(to_bytes(n, (bit_length(n) + 7) \div 8))
         IN IF ~r.ok THEN Ok(<<65533>>)
            ELSE IF r.text = << >> THEN Ok(<<0>>) ELSE r

text_from_bits(bits) ==
    IF bits = << >> THEN Raise("ValueError")
    ELSE LET n == int_base2(bits)
             r == decode(to_bytes(n, (bit_length(n) + 7) \div 8))
         IN IF r.ok /\ r.text = << >> THEN Ok(<<0>>) ELSE r

\* ------------------------------------------------------ quantum circuit
Instr(op, q, t, cond, by) == [op |-> op, q |-> q, t |-> t, cond |-> cond, by |-> by]

\* QuantumCircuit.barrier()
barrier == <<Instr("barrier", 0, 0, "none", "barrier")>>

\* create_bell_pair without the CNOT
create_bell_pair_noCX(a, b) == <<Instr("h", a, 0, "none", "create_bell_pair")>>

\* create_bell_pair with control and target of the CNOT exchanged
create_bell_pair_reversed(a, b) ==
    << Instr("h", a, 0, "none", "create_bell_pair"),
       Instr("cx", b, a, "none", "create_bell_pair") >>

create_bell_pair(a, b) ==
    << Instr("h", a, 0, "none", "create_bell_pair"),
       Instr("cx", a, b, "none", "create_bell_pair") >>

alice_encode(q, value) ==
    IF value = 1 THEN <<Instr("x", q, 0, "none", "alice_encode")>> ELSE << >>

\* alice_gates without the Hadamard on q
alice_gates_noH(q, psi) == <<Instr("cx", q, psi, "none", "alice_gates")>>

\* alice_gates with the Hadamard gate before the CNOT
alice_gates_hfirst(q, psi) ==
    << Instr("h", q, 0, "none", "alice_gates"),
       Instr("cx", q, psi, "none", "alice_gates") >>

alice_gates(q, psi) ==
    << Instr("cx", q, psi, "none", "alice_gates"),
       Instr("h", q, 0, "none", "alice_gates") >>

\* measure_and_send with the two classical bits exchanged
measure_and_send_swapped(a, b) ==
    << Instr("measure", a, 1, "none", "measure_and_send"),
       Instr("measure", b, 0, "none", "measure_and_send") >>

\* measure_and_send that measures only the first qubit
measure_and_send_first_only(a, b) ==
    << Instr("measure", a, 0, "none", "measure_and_send") >>

measure_and_send(a, b) ==
    << Instr("measure", a, 0, "none", "measure_and_send"),
       Instr("measure", b, 1, "none", "measure_and_send") >>

\* bob_gates with the two conditions exchanged
bob_gates_swapped(qubit, crz, crx) ==
    << Instr("x", qubit, 0, crz, "bob_gates"),
       Instr("z", qubit, 0, crx, "bob_gates") >>

bob_gates(qubit, crz, crx) ==
    << Instr("x", qubit, 0, crx, "bob_gates"),
       Instr("z", qubit, 0, crz, "bob_gates") >>

\* build_teleportation_circuit with Bob's gates placed before Alice's measurements
build_teleportation_circuit_reordered(value) ==
    create_bell_pair(1, 2) \o barrier
    \o alice_encode(0, value) \o barrier
    \o alice_gates(0, 1) \o barrier
    \o bob_gates(2, "crz", "crx") \o barrier
    \o measure_and_send(0, 1) \o barrier
    \o <<Instr("measure", 2, 2, "none", "measure")>>

build_teleportation_circuit(value) ==
    create_bell_pair(1, 2) \o barrier
    \o alice_encode(0, value) \o barrier
    \o alice_gates(0, 1) \o barrier
    \o measure_and_send(0, 1) \o barrier
    \o bob_gates(2, "crz", "crx") \o barrier
    \o <<Instr("measure", 2, 2, "none", "measure")>>

\* classical bit held by each one-bit register, in the order the registers
\* are given to QuantumCircuit: crz, crx, output
RegBit(r) == IF r = "crz" THEN 0 ELSE IF r = "crx" THEN 1 ELSE 2

\* --------------------------------------------------- simulator semantics
Basis == 0..7
QBit(s, q) == (s \div Pow2(q)) % 2
Flip(s, q) == IF QBit(s, q) = 1 THEN s - Pow2(q) ELSE s + Pow2(q)

Ket0 == [s \in Basis |-> IF s = 0 THEN 1 ELSE 0]
Creg0 == [c \in 0..2 |-> 0]

GateX(a, q) == [s \in DOMAIN a |-> a[Flip(s, q)]]
GateZ(a, q) == [s \in DOMAIN a |-> IF QBit(s, q) = 1 THEN 0 - a[s] ELSE a[s]]
GateCX(a, c, t) == [s \in DOMAIN a |-> IF QBit(s, c) = 1 THEN a[Flip(s, t)] ELSE a[s]]
\* Hadamard without its 1/sqrt(2) factor, which nh counts
GateH(a, q) ==
    [s \in DOMAIN a |-> IF QBit(s, q) = 0 THEN a[s] + a[Flip(s, q)]
                     ELSE a[Flip(s, q)] - a[s]]

ApplyUnitary(a, ins) ==
    IF ins.op = "h" THEN GateH(a, ins.q)
    ELSE IF ins.op = "x" THEN GateX(a, ins.q)
    ELSE IF ins.op = "z" THEN GateZ(a, ins.q)
    ELSE IF ins.op = "cx" THEN GateCX(a, ins.q, ins.t)
    ELSE a

RECURSIVE SumSq(_, _)
SumSq(a, S) ==
    IF S = {} THEN 0
    ELSE LET s == CHOOSE x \in S : TRUE IN a[s] * a[s] + SumSq(a, S \ {s})

Norm2(a) == SumSq(a, DOMAIN a)
\* unnormalised weight of reading m on qubit q
Weight(a, q, m) == SumSq(a, {s \in DOMAIN a : QBit(s, q) = m})
Collapse(a, q, m) == [s \in DOMAIN a |-> IF QBit(s, q) = m THEN a[s] ELSE 0]

\* Result.get_counts() key of one shot: registers from last to first,
\* separated by spaces
ClChar(b) == IF b = 1 THEN "1" ELSE "0"
CountsKey(c) == <<ClChar(c[2]), " ", ClChar(c[1]), " ", ClChar(c[0])>>

\* ---------------------------------------------------------------- state
VARIABLES
    message,        \* argument of send_quantum_message
    pc,             \* position in send_quantum_message
    bits,           \* text_to_bits(message), the sequence the loop iterates
    i,              \* 1-based index of the loop's current bit
    received_bits,
    value,          \* int(bit) of the circuit last built
    qc,             \* circuit last built
    ip,             \* index of the next instruction the simulator runs
    amp, nh,        \* simulator state vector (see header)
    creg,           \* simulator classical bits
    shots,          \* shots of the last execute call
    result,         \* outcome of send_quantum_message
    trace,          \* history: emitting function of each gate run in this shot
    builds, execs,  \* history: circuits built, execute calls made
    relayed,        \* history: <<index, bit sent, output read>> per finished shot
    flips,          \* noisy variant only: readout errors so far
    c_src, c_pc, c_text, c_bits, c_out,  \* codec exercised on its own
    sim_error,      \* exception raised by the simulator call, "none" if none
    demo,           \* notebook cell being run on its own, "off" if none
    shot,           \* that cell: shots (or runs) completed
    demo_counts,    \* that cell: its `counts` dictionary
    truth_table,    \* SAT notebook: value of the expression per assignment queried
    provider,       \* SAT notebook: the backends the provider lists
    backend,        \* SAT notebook: outcome of the backend selection
    displayed,      \* universe notebook: images displayed
    reduced         \* teleportation test cell: `counts` after the reduction

sendVars == <<message, pc, bits, i, received_bits, value, qc, ip, amp, nh, creg,
              shots, result, trace, builds, execs, relayed, flips>>
codecVars == <<c_src, c_pc, c_text, c_bits, c_out>>
cellVars == <<truth_table, provider, backend, displayed, reduced>>
extraVars == <<sim_error, demo, shot, demo_counts, cellVars>>
vars == <<sendVars, codecVars, extraVars>>
simVars == <<ip, amp, nh, creg, trace>>

Texts == SeqsUpTo(Alphabet, MaxChars)
NoResult == [ok |-> FALSE, text |-> << >>, err |-> "pending"]

CodecOff ==
    /\ c_src = "off" /\ c_pc = "off" /\ c_text = << >> /\ c_bits = << >> /\ c_out = NoResult

NullBackend == [n_qubits |-> 0, simulator |-> FALSE, operational |-> FALSE, pending_jobs |-> 0]
NoBackend == [found |-> FALSE, err |-> "pending", b |-> NullBackend]

CellsOff ==
    /\ truth_table = << >> /\ provider = << >> /\ backend = NoBackend
    /\ displayed = << >> /\ reduced = << >>

ExtraOff ==
    /\ sim_error = "none" /\ demo = "off" /\ shot = 0 /\ demo_counts = << >>
    /\ CellsOff

InitWith(messages) ==
    /\ message \in messages
    /\ pc = "start"
    /\ bits = << >> /\ i = 0 /\ received_bits = << >>
    /\ value = 0 /\ qc = << >> /\ ip = 0 /\ amp = Ket0 /\ nh = 0 /\ creg = Creg0
    /\ shots = 0 /\ result = NoResult /\ trace = << >>
    /\ builds = 0 /\ execs = 0 /\ relayed = << >> /\ flips = 0
    /\ CodecOff
    /\ ExtraOff

Init == InitWith(Texts)

\* send_quantum_message up to the loop header
Start ==
    /\ pc = "start"
    /\ received_bits' = << >>
    /\ bits' = text_to_bits(message)
    /\ i' = 1
    /\ pc' = "loop"
    /\ UNCHANGED <<message, value, qc, simVars, shots, result, builds, execs, relayed, flips>>
    /\ UNCHANGED codecVars
    /\ UNCHANGED extraVars

\* Build that starts the next bit as soon as the shot is over, before its
\* output is received
Build_early ==
    /\ \/ pc = "loop" /\ i <= Len(bits) /\ i' = i
       \/ pc = "exec" /\ ip > Len(qc) /\ i < Len(bits) /\ i' = i + 1
    /\ value' = (IF bits[i'] = "1" THEN 1 ELSE 0)
    /\ qc' = build_teleportation_circuit(value')
    /\ builds' = builds + 1
    /\ pc' = "built"
    /\ UNCHANGED <<message, bits, received_bits, simVars, shots, result, execs, relayed, flips>>
    /\ UNCHANGED codecVars
    /\ UNCHANGED extraVars

\* qc = build_teleportation_circuit(int(bit))
Build ==
    /\ pc = "loop" /\ i <= Len(bits)
    /\ value' = (IF bits[i] = "1" THEN 1 ELSE 0)
    /\ qc' = build_teleportation_circuit(value')
    /\ builds' = builds + 1
    /\ pc' = "built"
    /\ UNCHANGED <<message, bits, i, received_bits, simVars, shots, result, execs, relayed, flips>>
    /\ UNCHANGED codecVars
    /\ UNCHANGED extraVars

\* Execute that goes on from the state the previous shot left
Execute_stale ==
    /\ pc = "built"
    /\ shots' = 1
    /\ execs' = execs + 1
    /\ ip' = 1 /\ trace' = << >>
    /\ pc' = "exec"
    /\ UNCHANGED <<amp, nh, creg>>
    /\ UNCHANGED <<message, bits, i, received_bits, value, qc, result, builds, relayed, flips>>
    /\ UNCHANGED codecVars
    /\ UNCHANGED extraVars

\* execute(qc, backend, shots=1): the simulator starts the shot from |000>
\* with all classical bits 0
Execute ==
    /\ pc = "built"
    /\ shots' = 1
    /\ execs' = execs + 1
    /\ ip' = 1 /\ amp' = Ket0 /\ nh' = 0 /\ creg' = Creg0 /\ trace' = << >>
    /\ pc' = "exec"
    /\ UNCHANGED <<message, bits, i, received_bits, value, qc, result, builds, relayed, flips>>
    /\ UNCHANGED codecVars
    /\ UNCHANGED extraVars

Running == pc = "exec" /\ ip <= Len(qc)
Traced(ins) == IF ins.op = "barrier" THEN trace ELSE Append(trace, ins.by)
Finished(k) == IF k > Len(qc) THEN Append(relayed, <<i, value, creg'[2]>>) ELSE relayed
sendFrame == <<message, pc, bits, i, received_bits, value, qc, shots, result, builds, execs>>

\* an unconditioned gate or a barrier
ApplyGate ==
    /\ Running
    /\ qc[ip].op # "measure" /\ qc[ip].cond = "none"
    /\ amp' = ApplyUnitary(amp, qc[ip])
    /\ nh' = (IF qc[ip].op = "h" THEN nh + 1 ELSE nh)
    /\ trace' = Traced(qc[ip])
    /\ ip' = ip + 1
    /\ UNCHANGED <<creg, relayed, flips>>
    /\ UNCHANGED sendFrame
    /\ UNCHANGED codecVars
    /\ UNCHANGED extraVars

\* gate.c_if(register, 1): applied iff the register reads 1
ApplyConditional ==
    /\ Running
    /\ qc[ip].op # "measure" /\ qc[ip].cond # "none"
    /\ amp' = (IF creg[RegBit(qc[ip].cond)] = 1 THEN ApplyUnitary(amp, qc[ip]) ELSE amp)
    /\ trace' = Traced(qc[ip])
    /\ ip' = ip + 1
    /\ UNCHANGED <<nh, creg, relayed, flips>>
    /\ UNCHANGED sendFrame
    /\ UNCHANGED codecVars
    /\ UNCHANGED extraVars

\* measure(q, t): any outcome of nonzero weight; the state collapses on it
ApplyMeasure ==
    /\ Running
    /\ qc[ip].op = "measure"
    /\ \E m \in {0, 1} :
         /\ Weight(amp, qc[ip].q, m) > 0
         /\ amp' = Collapse(amp, qc[ip].q, m)
         /\ creg' = [creg EXCEPT ![qc[ip].t] = m]
    /\ trace' = Traced(qc[ip])
    /\ ip' = ip + 1
    /\ relayed' = Finished(ip')
    /\ UNCHANGED <<nh, flips>>
    /\ UNCHANGED sendFrame
    /\ UNCHANGED codecVars
    /\ UNCHANGED extraVars

\* Receive putting the new bit in front of received_bits
Receive_prepend ==
    /\ pc = "exec" /\ ip > Len(qc)
    /\ LET counts == {CountsKey(creg)}
           received_bit == (CHOOSE k \in counts : TRUE)[1]
       IN received_bits' = <<received_bit>> \o received_bits
    /\ i' = i + 1
    /\ pc' = "loop"
    /\ UNCHANGED <<message, bits, value, qc, simVars, shots, result, builds, execs, relayed, flips>>
    /\ UNCHANGED codecVars
    /\ UNCHANGED extraVars

\* Receive that relays the same bit again when the bit read differs from the bit sent
Receive_retry ==
    /\ pc = "exec" /\ ip > Len(qc)
    /\ LET counts == {CountsKey(creg)}
           received_bit == (CHOOSE k \in counts : TRUE)[1]
       IN IF received_bit = bits[i]
          THEN received_bits' = Append(received_bits, received_bit) /\ i' = i + 1
          ELSE UNCHANGED <<received_bits, i>>
    /\ pc' = "loop"
    /\ UNCHANGED <<message, bits, value, qc, simVars, shots, result, builds, execs, relayed, flips>>
    /\ UNCHANGED codecVars
    /\ UNCHANGED extraVars

\* Receive appending the bit twice
Receive_twice ==
    /\ pc = "exec" /\ ip > Len(qc)
    /\ LET counts == {CountsKey(creg)}
           received_bit == (CHOOSE k \in counts : TRUE)[1]
       IN received_bits' = received_bits \o <<received_bit, received_bit>>
    /\ i' = i + 1
    /\ pc' = "loop"
    /\ UNCHANGED <<message, bits, value, qc, simVars, shots, result, builds, execs, relayed, flips>>
    /\ UNCHANGED codecVars
    /\ UNCHANGED extraVars

\* Receive taking the last character of the key
Receive_last_char ==
    /\ pc = "exec" /\ ip > Len(qc)
    /\ LET counts == {CountsKey(creg)}
           key == CHOOSE k \in counts : TRUE
           received_bit == key[Len(key)]
       IN received_bits' = Append(received_bits, received_bit)
    /\ i' = i + 1
    /\ pc' = "loop"
    /\ UNCHANGED <<message, bits, value, qc, simVars, shots, result, builds, execs, relayed, flips>>
    /\ UNCHANGED codecVars
    /\ UNCHANGED extraVars

\* counts = result.get_counts(); received_bit = list(counts.keys())[0][0];
\* received_bits += received_bit
Receive ==
    /\ pc = "exec" /\ ip > Len(qc)
    /\ LET counts == {CountsKey(creg)}
           received_bit == (CHOOSE k \in counts : TRUE)[1]
       IN received_bits' = Append(received_bits, received_bit)
    /\ i' = i + 1
    /\ pc' = "loop"
    /\ UNCHANGED <<message, bits, value, qc, simVars, shots, result, builds, execs, relayed, flips>>
    /\ UNCHANGED codecVars
    /\ UNCHANGED extraVars

\* Return that may decode while the last bit is still to be relayed
Return_early ==
    /\ pc = "loop" /\ i >= Len(bits)
    /\ result' = text_from_bits(received_bits)
    /\ pc' = (IF result'.ok THEN "done" ELSE "error")
    /\ UNCHANGED <<message, bits, i, received_bits, value, qc, simVars, shots, builds, execs, relayed, flips>>
    /\ UNCHANGED codecVars
    /\ UNCHANGED extraVars

\* return text_from_bits(received_bits); an exception leaves the function
Return ==
    /\ pc = "loop" /\ i > Len(bits)
    /\ result' = text_from_bits(received_bits)
    /\ pc' = (IF result'.ok THEN "done" ELSE "error")
    /\ UNCHANGED <<message, bits, i, received_bits, value, qc, simVars, shots, builds, execs, relayed, flips>>
    /\ UNCHANGED codecVars
    /\ UNCHANGED extraVars

Next ==
    \/ Start
    \/ Build
    \/ Execute
    \/ ApplyGate
    \/ ApplyConditional
    \/ ApplyMeasure
    \/ Receive
    \/ Return

Spec == Init /\ [][Next]_vars

\* send_quantum_message is one thread of straight-line code and a for loop
\* over a finite string: whenever a step is possible, one is taken
InitLive == InitWith(SeqsUpTo(Alphabet, MaxLiveChars))

SpecLive == InitLive /\ [][Next]_vars /\ WF_vars(Next)

\* ------------------------------------------- simulator with readout noise
\* The circuits can also be run on a device (closing remarks of the
\* notebook), where the value read for Bob's qubit may be the opposite of
\* the state it collapsed to.  At most MaxFlips such errors per message.
NoisyReadout ==
    /\ Running
    /\ qc[ip].op = "measure" /\ qc[ip].by = "measure"
    /\ flips < MaxFlips
    /\ \E m \in {0, 1} :
         /\ Weight(amp, qc[ip].q, m) > 0
         /\ amp' = Collapse(amp, qc[ip].q, m)
         /\ creg' = [creg EXCEPT ![qc[ip].t] = 1 - m]
    /\ flips' = flips + 1
    /\ trace' = Traced(qc[ip])
    /\ ip' = ip + 1
    /\ relayed' = Finished(ip')
    /\ UNCHANGED nh
    /\ UNCHANGED sendFrame
    /\ UNCHANGED codecVars
    /\ UNCHANGED extraVars

InitNoisy == InitWith(SeqsUpTo(Alphabet, MaxNoisyChars))

NextNoisy ==
    \/ Next
    \/ NoisyReadout

SpecNoisy == InitNoisy /\ [][NextNoisy]_vars

\* ------------------------------------------------- the codec on its own
RawBits == UNION {[1..n -> {"0", "1"}] : n \in 0..MaxRawBits}

InitCodec ==
    /\ message = << >> /\ pc = "off"
    /\ bits = << >> /\ i = 0 /\ received_bits = << >>
    /\ value = 0 /\ qc = << >> /\ ip = 0 /\ amp = Ket0 /\ nh = 0 /\ creg = Creg0
    /\ shots = 0 /\ result = NoResult /\ trace = << >>
    /\ builds = 0 /\ execs = 0 /\ relayed = << >> /\ flips = 0
    /\ ExtraOff
    /\ c_out = NoResult
    /\ \/ c_src = "text" /\ c_pc = "text" /\ c_text \in Texts /\ c_bits = << >>
       \/ c_src = "bits" /\ c_pc = "bits" /\ c_text = << >> /\ c_bits \in RawBits

\* c_bits = text_to_bits(c_text)
CodecEncode ==
    /\ c_pc = "text"
    /\ c_bits' = text_to_bits(c_text)
    /\ c_pc' = "bits"
    /\ UNCHANGED <<c_src, c_text, c_out>>
    /\ UNCHANGED sendVars
    /\ UNCHANGED extraVars

\* c_out = text_from_bits(c_bits)
CodecDecode ==
    /\ c_pc = "bits"
    /\ c_out' = text_from_bits(c_bits)
    /\ c_pc' = "decoded"
    /\ UNCHANGED <<c_src, c_text, c_bits>>
    /\ UNCHANGED sendVars
    /\ UNCHANGED extraVars

NextCodec ==
    \/ CodecEncode
    \/ CodecDecode

SpecCodec == InitCodec /\ [][NextCodec]_vars

\* ------------------------------------------ simulator call that may fail
\* execute(...).result() is a call into the toolkit and may raise; nothing
\* in send_quantum_message catches what it raises
SimErrors == {"QiskitError", "TimeoutError"}

\* the failure caught and the loop going on with the next bit
ExecuteFails_swallowed ==
    /\ pc = "built"
    /\ \E e \in SimErrors : sim_error' = e
    /\ shots' = 1
    /\ execs' = execs + 1
    /\ i' = i + 1
    /\ pc' = "loop"
    /\ UNCHANGED <<message, bits, received_bits, value, qc, simVars, result, builds, relayed, flips>>
    /\ UNCHANGED codecVars
    /\ UNCHANGED <<demo, shot, demo_counts, cellVars>>

ExecuteFails ==
    /\ pc = "built"
    /\ \E e \in SimErrors :
         /\ sim_error' = e
         /\ result' = Raise(e)
    /\ shots' = 1
    /\ execs' = execs + 1
    /\ pc' = "error"
    /\ UNCHANGED <<message, bits, i, received_bits, value, qc, simVars, builds, relayed, flips>>
    /\ UNCHANGED codecVars
    /\ UNCHANGED <<demo, shot, demo_counts, cellVars>>

NextFailing ==
    \/ Next
    \/ ExecuteFails

SpecFailing == Init /\ [][NextFailing]_vars

\* ------------------------------------------------ the Bell pair cells
\* bell_circuit = QuantumCircuit(2); create_bell_pair(bell_circuit, 0, 1)
bell_circuit == create_bell_pair(0, 1)

\* QuantumCircuit(2, 2) with bell_circuit and both qubits measured
bell_measured ==
    bell_circuit \o << Instr("measure", 0, 0, "none", "measure"),
                       Instr("measure", 1, 1, "none", "measure") >>

\* QuantumCircuit(2, 1) with bell_circuit and only qubit 0 measured
bell_half_measured == bell_circuit \o <<Instr("measure", 0, 0, "none", "measure")>>

\* universe notebook: circuit = QuantumCircuit(1, 1); circuit.h(0);
\* circuit.measure(0, 0)
universe_circuit ==
    << Instr("h", 0, 0, "none", "circuit"), Instr("measure", 0, 0, "none", "circuit") >>

\* teleportation_circuit = build_teleportation_circuit(1)
teleportation_circuit == build_teleportation_circuit(1)

DemoCircuit(d) ==
    CASE d = "bell_counts" -> bell_measured
      [] d = "bell_collapse" -> bell_half_measured
      [] d = "universe" -> universe_circuit
      [] d = "teleport_counts" -> teleportation_circuit
      [] OTHER -> << >>
DemoClbits(d) ==
    CASE d = "bell_counts" -> 2
      [] d = "teleport_counts" -> 3
      [] OTHER -> 1
DemoQubits(d) ==
    CASE d = "universe" -> 1
      [] d = "teleport_counts" -> 3
      [] OTHER -> 2
\* shots=1 in the universe notebook; MaxShots stands for the 1024 shots and
\* the 128 runs of the other cells; a cell without a circuit has no shot
DemoShots(d) ==
    CASE d = "universe" -> 1
      [] d \in {"bell_counts", "bell_collapse", "teleport_counts"} -> MaxShots
      [] OTHER -> 0

KetZero(nq) == [s \in 0..(Pow2(nq) - 1) |-> IF s = 0 THEN 1 ELSE 0]
CregZero(nc) == [c \in 0..(nc - 1) |-> 0]

\* get_counts() key of a single classical register: highest bit first
RegisterKey(c, nc) == [k \in 1..nc |-> ClChar(c[nc - k])]

\* get_statevector(): the vector a / sqrt(norm2)
StateVector(a) == [vec |-> a, norm2 |-> Norm2(a)]

\* dictionary counting the occurrences of keys
Tally(d, k) == IF k \in DOMAIN d THEN [d EXCEPT ![k] = @ + 1] ELSE d @@ (k :> 1)

\* Two cells are run, each MaxShots times where the notebook has 1024 shots
\* (bell_counts) and 128 runs (bell_collapse).
InitBell ==
    /\ message = << >> /\ pc = "demo"
    /\ bits = << >> /\ i = 0 /\ received_bits = << >>
    /\ value = 0 /\ ip = 0 /\ nh = 0
    /\ shots = 0 /\ result = NoResult /\ trace = << >>
    /\ builds = 0 /\ execs = 0 /\ relayed = << >> /\ flips = 0
    /\ CodecOff
    /\ sim_error = "none" /\ shot = 0 /\ demo_counts = << >>
    /\ CellsOff
    /\ demo \in {"bell_counts", "bell_collapse"}
    /\ qc = DemoCircuit(demo)
    /\ amp = KetZero(2) /\ creg = CregZero(DemoClbits(demo))

demoFrame == <<message, pc, bits, i, received_bits, value, qc, shots, result, trace,
               builds, execs, relayed, flips, sim_error, demo>>

\* a shot (a run) starts from |00> with its classical bits at 0
DemoShot ==
    /\ pc = "demo" /\ ip = 0 /\ shot < DemoShots(demo)
    /\ amp' = KetZero(DemoQubits(demo)) /\ creg' = CregZero(DemoClbits(demo)) /\ nh' = 0
    /\ ip' = 1
    /\ UNCHANGED <<shot, demo_counts>>
    /\ UNCHANGED demoFrame
    /\ UNCHANGED cellVars
    /\ UNCHANGED codecVars

DemoGate ==
    /\ pc = "demo" /\ ip >= 1 /\ ip <= Len(qc)
    /\ qc[ip].op # "measure" /\ qc[ip].cond = "none"
    /\ amp' = ApplyUnitary(amp, qc[ip])
    /\ nh' = (IF qc[ip].op = "h" THEN nh + 1 ELSE nh)
    /\ ip' = ip + 1
    /\ UNCHANGED <<creg, shot, demo_counts>>
    /\ UNCHANGED demoFrame
    /\ UNCHANGED cellVars
    /\ UNCHANGED codecVars

DemoMeasure ==
    /\ pc = "demo" /\ ip >= 1 /\ ip <= Len(qc)
    /\ qc[ip].op = "measure"
    /\ \E m \in {0, 1} :
         /\ Weight(amp, qc[ip].q, m) > 0
         /\ amp' = Collapse(amp, qc[ip].q, m)
         /\ creg' = [creg EXCEPT ![qc[ip].t] = m]
    /\ ip' = ip + 1
    /\ UNCHANGED <<nh, shot, demo_counts>>
    /\ UNCHANGED demoFrame
    /\ UNCHANGED cellVars
    /\ UNCHANGED codecVars

\* the shot's outcome enters the counts: the key alone (get_counts), or the
\* key together with the final state vector (Counter over both lists)
DemoTally ==
    /\ pc = "demo" /\ ip > Len(qc)
    /\ LET measured_value == IF demo = "teleport_counts" THEN CountsKey(creg)
                             ELSE RegisterKey(creg, DemoClbits(demo))
           state_vector == StateVector(amp)
       IN demo_counts' = Tally(demo_counts,
                               IF demo = "bell_collapse"
                               THEN <<measured_value, state_vector>>
                               ELSE measured_value)
    /\ shot' = shot + 1
    /\ ip' = 0
    /\ UNCHANGED <<amp, nh, creg>>
    /\ UNCHANGED demoFrame
    /\ UNCHANGED cellVars
    /\ UNCHANGED codecVars

NextBell ==
    \/ DemoShot
    \/ DemoGate
    \/ DemoMeasure
    \/ DemoTally

SpecBell == InitBell /\ [][NextBell]_vars

\* ------------------------------------- cells of the other two notebooks
\* and the 1024-shot test cell of the teleportation circuit

\* the expression without its last clause
input_3sat_4clauses ==
    [nvars |-> 3, nclauses |-> 4,
     lines |-> << << -1, -2, -3, 0 >>,
                  << 1, -2, 3, 0 >>,
                  << 1, 2, -3, 0 >>,
                  << 1, -2, -3, 0 >> >>]

\* input_3sat: the DIMACS text, `p cnf 3 5` and one line per clause, each
\* closed by 0
input_3sat ==
    [nvars |-> 3, nclauses |-> 5,
     lines |-> << << -1, -2, -3, 0 >>,
                  << 1, -2, 3, 0 >>,
                  << 1, 2, -3, 0 >>,
                  << 1, -2, -3, 0 >>,
                  << -1, 2, 3, 0 >> >>]

\* the literals of a clause line: the numbers before the closing 0
ClauseOf(line) == {line[k] : k \in 1..(Len(line) - 1)}
\* literal n is variable n, literal -n its negation
LiteralHolds(l, v) == IF l > 0 THEN v[l] = 1 ELSE v[0 - l] = 0
ClauseHolds(c, v) == \E l \in c : LiteralHolds(l, v)
Assignments(expression) == [1..expression.nvars -> {0, 1}]

\* the function the oracle of the expression computes: the conjunction of
\* its clauses
LogicalExpressionOracle(expression, v) ==
    IF \A k \in 1..Len(expression.lines) : ClauseHolds(ClauseOf(expression.lines[k]), v)
    THEN 1 ELSE 0

\* one query of the oracle on an assignment not queried before
OracleQuery ==
    /\ pc = "demo" /\ demo = "sat_table"
    /\ \E v \in Assignments(input_3sat) \ DOMAIN truth_table :
         truth_table' = truth_table @@ (v :> LogicalExpressionOracle(input_3sat, v))
    /\ UNCHANGED <<provider, backend, displayed, reduced>>
    /\ UNCHANGED <<shot, demo_counts, simVars>>
    /\ UNCHANGED demoFrame
    /\ UNCHANGED codecVars

\* nqubits = qc.num_qubits of the Grover circuit
nqubits == 12
BackendSizes == {5, 12, 16}
Backends ==
    [n_qubits : BackendSizes, simulator : BOOLEAN, operational : BOOLEAN,
     pending_jobs : 0..MaxPending]
Providers == SeqsUpTo(Backends, MaxBackends)

\* the filter without the test on the number of qubits
backend_filter_any_size(x) == ~x.simulator /\ x.operational = TRUE

\* the lambda given as filters=
backend_filter(x) == x.n_qubits >= nqubits /\ ~x.simulator /\ x.operational = TRUE

\* provider.backends(filters=...): the listed backends that pass the filter
provider_backends(p) == SelectSeq(p, backend_filter)

\* least_busy: min over the operational backends by pending_jobs (the first
\* of the minimal ones), an error if there is none
least_busy(bs) ==
    LET up == SelectSeq(bs, LAMBDA b : b.operational)
        first == CHOOSE k \in 1..Len(up) :
                    /\ \A j \in 1..Len(up) : up[k].pending_jobs <= up[j].pending_jobs
                    /\ \A j \in 1..(k - 1) : up[j].pending_jobs > up[k].pending_jobs
    IN IF up = << >>
       THEN [found |-> FALSE, err |-> "IBMQError", b |-> NullBackend]
       ELSE [found |-> TRUE, err |-> "none", b |-> up[first]]

\* backend = least_busy(provider.backends(filters=...))
GetBackend ==
    /\ pc = "demo" /\ demo = "least_busy"
    /\ backend' = least_busy(provider_backends(provider))
    /\ pc' = "demo_done"
    /\ UNCHANGED <<truth_table, provider, displayed, reduced>>
    /\ UNCHANGED <<shot, demo_counts, simVars, sim_error, demo>>
    /\ UNCHANGED <<message, bits, i, received_bits, value, qc, shots, result, builds,
                   execs, relayed, flips>>
    /\ UNCHANGED codecVars

red_img == "redBranchPill.png"
blue_img == "blueBranchPill.png"

\* Display with the two images exchanged
Display_swapped ==
    /\ pc = "demo" /\ demo = "universe" /\ shot = DemoShots(demo) /\ ip = 0
    /\ LET res == demo_counts
       IN displayed' = Append(displayed,
                              IF <<"0">> \in DOMAIN res THEN blue_img ELSE red_img)
    /\ pc' = "demo_done"
    /\ UNCHANGED <<truth_table, provider, backend, reduced>>
    /\ UNCHANGED <<shot, demo_counts, simVars, sim_error, demo>>
    /\ UNCHANGED <<message, bits, i, received_bits, value, qc, shots, result, builds,
                   execs, relayed, flips>>
    /\ UNCHANGED codecVars

\* display(Image(url=red_img if "0" in res else blue_img)), res being the
\* counts of the single shot
Display ==
    /\ pc = "demo" /\ demo = "universe" /\ shot = DemoShots(demo) /\ ip = 0
    /\ LET res == demo_counts
       IN displayed' = Append(displayed,
                              IF <<"0">> \in DOMAIN res THEN red_img ELSE blue_img)
    /\ pc' = "demo_done"
    /\ UNCHANGED <<truth_table, provider, backend, reduced>>
    /\ UNCHANGED <<shot, demo_counts, simVars, sim_error, demo>>
    /\ UNCHANGED <<message, bits, i, received_bits, value, qc, shots, result, builds,
                   execs, relayed, flips>>
    /\ UNCHANGED codecVars

\* gate.c_if(register, 1) in a cell's circuit
DemoConditional ==
    /\ pc = "demo" /\ ip >= 1 /\ ip <= Len(qc)
    /\ qc[ip].op # "measure" /\ qc[ip].cond # "none"
    /\ amp' = (IF creg[RegBit(qc[ip].cond)] = 1 THEN ApplyUnitary(amp, qc[ip]) ELSE amp)
    /\ ip' = ip + 1
    /\ UNCHANGED <<nh, creg, shot, demo_counts>>
    /\ UNCHANGED demoFrame
    /\ UNCHANGED cellVars
    /\ UNCHANGED codecVars

\* the orders in which a dictionary with keys K may be iterated
Orders(K) ==
    {s \in [1..Cardinality(K) -> K] :
        \A a, b \in 1..Cardinality(K) : a # b => s[a] # s[b]}

\* {x[0:1]: c for x, c in items}: the items are taken in order, and an item
\* whose key is already in the dictionary replaces the value stored for it
RECURSIVE dict_comprehension(_)
dict_comprehension(items) ==
    IF items = << >> THEN << >>
    ELSE LET x == items[Len(items)][1]
             c == items[Len(items)][2]
         IN (SubSeq(x, 1, 1) :> c) @@ dict_comprehension(SubSeq(items, 1, Len(items) - 1))

\* counts = {x[0:1]: c for x, c in counts.items()} after the last shot; the
\* new dictionary is kept in `reduced`, next to the counts it was made from
DemoReduce ==
    /\ pc = "demo" /\ demo = "teleport_counts" /\ shot = DemoShots(demo) /\ ip = 0
    /\ \E order \in Orders(DOMAIN demo_counts) :
         reduced' = dict_comprehension([k \in 1..Len(order) |->
                                           <<order[k], demo_counts[order[k]]>>])
    /\ pc' = "demo_done"
    /\ UNCHANGED <<truth_table, provider, backend, displayed>>
    /\ UNCHANGED <<shot, demo_counts, simVars, sim_error, demo>>
    /\ UNCHANGED <<message, bits, i, received_bits, value, qc, shots, result, builds,
                   execs, relayed, flips>>
    /\ UNCHANGED codecVars

InitCells ==
    /\ message = << >> /\ pc = "demo"
    /\ bits = << >> /\ i = 0 /\ received_bits = << >>
    /\ value = 0 /\ ip = 0 /\ nh = 0
    /\ shots = 0 /\ result = NoResult /\ trace = << >>
    /\ builds = 0 /\ execs = 0 /\ relayed = << >> /\ flips = 0
    /\ CodecOff
    /\ sim_error = "none" /\ shot = 0 /\ demo_counts = << >>
    /\ demo \in {"sat_table", "least_busy", "universe", "teleport_counts"}
    /\ qc = DemoCircuit(demo)
    /\ amp = KetZero(DemoQubits(demo)) /\ creg = CregZero(DemoClbits(demo))
    /\ truth_table = << >> /\ backend = NoBackend /\ displayed = << >> /\ reduced = << >>
    /\ provider \in (IF demo = "least_busy" THEN Providers ELSE {<< >>})

NextCells ==
    \/ DemoShot
    \/ DemoGate
    \/ DemoConditional
    \/ DemoMeasure
    \/ DemoTally
    \/ DemoReduce
    \/ Display
    \/ OracleQuery
    \/ GetBackend

SpecCells == InitCells /\ [][NextCells]_vars

\* ======================================================== properties
CharBit(c) == IF c = "1" THEN 1 ELSE 0
ShotDone == pc = "exec" /\ ip > Len(qc)

\* bytes written directly in a bit string of whole bytes
RefBytes(bs) ==
    [k \in 1..(Len(bs) \div 8) |->
        DigitsValue([j \in 1..8 |-> CharBit(bs[8 * (k - 1) + j])])]
\* a bit string completed on the left with zeros to whole bytes
ZeroPadLeft(bs) == Repeat("0", (8 - (Len(bs) % 8)) % 8) \o bs
\* what Python's `decoded or '\0'` makes of a decoding outcome
OrNul(r) == IF r.ok /\ r.text = << >> THEN Ok(<<0>>) ELSE r

\* C1: in the ideal model every finished shot has its output bit (the
\* measurement of qubit 2) equal to the bit the circuit was built for,
\* whatever Alice's two classical bits are.
C1_OutputEqualsInput ==
    ShotDone => /\ creg[2] = value
                /\ value = CharBit(bits[i])
                /\ CountsKey(creg)[1] = bits[i]

C1_Witness ==
    ShotDone /\ value = 1 /\ creg[0] = 1 /\ creg[1] = 1 /\ creg[2] = 1

\* C2: decoding the encoding of a text gives the text back, for every text
\* (the empty text and texts that start with NUL included).
C2_RoundTrip ==
    (c_src = "text" /\ c_pc = "decoded") => c_out = Ok(c_text)

\* C3: Alice's two classical bits carry nothing about the payload: right
\* before her measurements each of the four outcomes has weight exactly 1/4,
\* for payload 0 and payload 1 alike, and every branch reached after her
\* measurements has weight 1/4.
JointWeight(a, z, x) == SumSq(a, {s \in DOMAIN a : QBit(s, 0) = z /\ QBit(s, 1) = x})
BeforeAlice == Running /\ qc[ip].by = "measure_and_send" /\ qc[ip].q = 0
AfterAlice == Running /\ qc[ip].by = "bob_gates" /\ qc[ip].op = "x"

C3_OutcomesUniform ==
    /\ BeforeAlice =>
         \A z \in {0, 1}, x \in {0, 1} :
            /\ JointWeight(amp, z, x) > 0
            /\ 4 * JointWeight(amp, z, x) = Norm2(amp)
    /\ AfterAlice => 4 * Norm2(amp) = Pow2(nh)

C3_Witness ==
    AfterAlice /\ value = 1 /\ creg[0] = 0 /\ creg[1] = 1

\* C4: send_quantum_message returns exactly the message it was given.
C4_ReturnsMessage ==
    pc \in {"done", "error"} => result = Ok(message)

\* C5: "hi" encodes to 0110100001101001, the ideal relay returns these 16
\* bits in the same positions, and they decode to "hi".
HiBits == << "0","1","1","0","1","0","0","0", "0","1","1","0","1","0","0","1" >>

C5_HiEndToEnd ==
    message = <<104, 105>> =>
        /\ pc # "start" => bits = HiBits
        /\ \A j \in 1..Len(received_bits) : j <= 16 /\ received_bits[j] = HiBits[j]
        /\ pc # "error"
        /\ pc = "done" => received_bits = HiBits /\ result = Ok(<<104, 105>>)

C5_Witness ==
    message = <<104, 105>> /\ pc = "done" /\ result = Ok(<<104, 105>>)

\* C6: the j-th received bit is the output read in the j-th finished shot,
\* which was built for the j-th bit of text_to_bits(message); bits are
\* neither reordered nor skipped nor duplicated.
C6_Ordering ==
    /\ Len(received_bits) <= Len(bits)
    /\ Len(relayed) = (IF ShotDone THEN Len(received_bits) + 1 ELSE Len(received_bits))
    /\ \A j \in 1..Len(relayed) : relayed[j][1] = j /\ relayed[j][2] = CharBit(bits[j])
    /\ \A j \in 1..Len(received_bits) : CharBit(received_bits[j]) = relayed[j][3]
    /\ pc \in {"done", "error"} => Len(received_bits) = Len(bits)

C6_Witness ==
    /\ pc \in {"done", "error"} /\ Len(received_bits) = Len(bits) /\ Len(bits) > 8
    /\ \E j \in 1..Len(bits) : received_bits[j] # bits[j]

\* C7: the gates of one shot run in the order PREPARE, ENCODE, MEASURE,
\* CORRECT, OUTPUT, every phase entered once, OUTPUT last.
PhaseOf(by) ==
    IF by = "create_bell_pair" THEN "PREPARE"
    ELSE IF by \in {"alice_encode", "alice_gates"} THEN "ENCODE"
    ELSE IF by = "measure_and_send" THEN "MEASURE"
    ELSE IF by = "bob_gates" THEN "CORRECT"
    ELSE "OUTPUT"

PhaseOrder == <<"PREPARE", "ENCODE", "MEASURE", "CORRECT", "OUTPUT">>

RECURSIVE PhasesEntered(_)
PhasesEntered(t) ==
    IF t = << >> THEN << >>
    ELSE LET before == PhasesEntered(SubSeq(t, 1, Len(t) - 1))
             p == PhaseOf(t[Len(t)])
         IN IF before # << >> /\ before[Len(before)] = p THEN before ELSE Append(before, p)

IsPrefix(a, b) == Len(a) <= Len(b) /\ a = SubSeq(b, 1, Len(a))

C7_PhaseOrder ==
    pc = "exec" =>
        /\ IsPrefix(PhasesEntered(trace), PhaseOrder)
        /\ ShotDone <=> PhasesEntered(trace) = PhaseOrder
        /\ ShotDone =>
             trace = <<"create_bell_pair", "create_bell_pair">>
                     \o (IF value = 1 THEN <<"alice_encode">> ELSE << >>)
                     \o <<"alice_gates", "alice_gates", "measure_and_send",
                          "measure_and_send", "bob_gates", "bob_gates", "measure">>

C7_Witness ==
    ShotDone /\ value = 1 /\ PhasesEntered(trace) = PhaseOrder

\* C8: one circuit and one execute call with shots=1 per bit, also when the
\* bit read differs from the bit sent.
C8_NoRetries ==
    /\ builds <= Len(bits) /\ execs <= builds
    /\ execs > 0 => shots = 1
    /\ pc = "loop" => builds = i - 1 /\ execs = i - 1
    /\ pc = "built" => builds = i /\ execs = i - 1
    /\ pc = "exec" => builds = i /\ execs = i
    /\ pc \in {"done", "error"} => builds = Len(bits) /\ execs = Len(bits)
    /\ \A j \in 1..Len(relayed) : relayed[j][1] = j

C8_Witness ==
    /\ pc \in {"done", "error"} /\ builds = Len(bits) /\ execs = Len(bits)
    /\ \E j \in 1..Len(relayed) : relayed[j][3] # relayed[j][2]

C10_DecodeErrorSurfaces ==
    /\ (pc \in {"done", "error"} /\ ~decode(RefBytes(received_bits)).ok) =>
          pc = "error"
    /\ pc = "error" =>
          /\ result = Raise("UnicodeDecodeError")
          /\ ~decode(RefBytes(received_bits)).ok
          /\ builds = Len(bits) /\ execs = Len(bits)
          /\ ~ENABLED NextNoisy

C10_Witness ==
    pc = "error" /\ flips = 1 /\ result.err = "UnicodeDecodeError"

\* C11: the empty text encodes to the empty bit sequence, and that bit
\* sequence decodes to the empty text.
C11_EmptyBoundary ==
    (c_src = "text" /\ c_text = << >> /\ c_pc # "text") =>
        /\ c_bits = << >>
        /\ c_pc = "decoded" => c_out = Ok(<< >>)

\* C12: text_to_bits(text) has 8 bits per UTF-8 byte of text, and bits
\* 8k..8k+7 are byte k written most significant bit first, leading zero
\* bytes included.
C12_FixedWidth ==
    (c_src = "text" /\ c_pc # "text") =>
        LET bs == encode(c_text) IN
        /\ Len(c_bits) = 8 * Len(bs)
        /\ \A k \in 1..Len(bs) : \A j \in 1..8 :
              c_bits[8 * (k - 1) + j] = ClChar((bs[k] \div Pow2(8 - j)) % 2)

\* C13: the result of text_to_bits contains only the characters 0 and 1
\* and its length is a multiple of 8.
C13_WholeBytes ==
    (c_src = "text" /\ c_pc # "text") =>
        /\ Len(c_bits) % 8 = 0
        /\ \A k \in 1..Len(c_bits) : c_bits[k] \in {"0", "1"}

C13_Witness ==
    /\ c_src = "text" /\ c_pc = "bits" /\ c_text = <<104>>
    /\ Len(c_bits) = 8 /\ c_bits[1] = "0" /\ c_bits[2] = "1"

\* C14: measure_and_send writes the measurement of q to crz and that of
\* psi_A to crx; bob_gates applies X to Bob's qubit iff crx = 1 and then Z
\* iff crz = 1 (nothing for 00, X for 01, Z for 10, X then Z for 11),
\* whatever the payload and the earlier bits.
Definite(a, q, m) == \A s \in DOMAIN a : a[s] # 0 => QBit(s, q) = m
AtAliceMeasure(q) == Running /\ qc[ip].by = "measure_and_send" /\ qc[ip].q = q
AtBob(op) == Running /\ qc[ip].by = "bob_gates" /\ qc[ip].op = op

C14_Step ==
    /\ AtAliceMeasure(0) => Definite(amp', 0, creg'[0]) /\ creg'[1] = creg[1]
    /\ AtAliceMeasure(1) => Definite(amp', 1, creg'[1]) /\ creg'[0] = creg[0]
    /\ AtBob("x") => /\ amp' = (IF creg[1] = 1 THEN GateX(amp, 2) ELSE amp)
                     /\ qc[ip + 1].by = "bob_gates" /\ qc[ip + 1].op = "z"
    /\ AtBob("z") => amp' = (IF creg[0] = 1 THEN GateZ(amp, 2) ELSE amp)

C14_CorrectionTable == [][C14_Step]_vars

C14_Witness ==
    /\ pc = "exec" /\ Len(trace) >= 2
    /\ trace[Len(trace)] = "bob_gates" /\ trace[Len(trace) - 1] = "bob_gates"
    /\ creg[0] = 1 /\ creg[1] = 1 /\ value = 0

\* C15: every bit gets a circuit of its own, built from that bit alone, and
\* its shot starts from |000> with all classical bits 0, so the bit read
\* owes nothing to the other positions.
C15_FreshPerBit ==
    /\ pc \in {"built", "exec"} => qc = build_teleportation_circuit(CharBit(bits[i]))
    /\ (pc = "exec" /\ ip = 1) =>
          amp = Ket0 /\ creg = Creg0 /\ nh = 0 /\ trace = << >>
    /\ ShotDone => creg[2] = CharBit(bits[i])

C15_Witness ==
    /\ pc = "exec" /\ ip = 1 /\ i > 1 /\ bits[i - 1] = "1" /\ bits[i] = "0"
    /\ amp = Ket0 /\ creg = Creg0

\* C16: at most one bit is being relayed at any moment, and the circuit of
\* bit i+1 is not built before the output of bit i is in received_bits.
C16_Sequential ==
    /\ builds - Len(received_bits) \in {0, 1}
    /\ pc \in {"built", "exec"} <=> builds = Len(received_bits) + 1
    /\ pc \in {"built", "exec"} => i = Len(received_bits) + 1 /\ builds = i

C16_Witness ==
    pc = "built" /\ i = 2 /\ Len(received_bits) = 1 /\ builds = 2

\* C17: when the simulator call fails for some bit, send_quantum_message
\* ends with that same error: the bit is not relayed again, the remaining
\* bits are not relayed and no message is returned.
C17_SimulatorErrorPropagates ==
    sim_error # "none" =>
        /\ pc = "error"
        /\ result = Raise(sim_error)
        /\ Len(received_bits) = i - 1
        /\ builds = i /\ execs = i
        /\ ~ENABLED NextFailing

C17_Witness ==
    /\ sim_error = "TimeoutError" /\ pc = "error"
    /\ i >= 2 /\ i < Len(bits) /\ result.text = << >>

\* C18: send_quantum_message terminates; it encodes the message once,
\* before any relay, relays every bit, and decodes once, after the last
\* bit has been relayed.
C18_Order ==
    /\ pc = "start" => bits = << >> /\ builds = 0 /\ execs = 0
    /\ result # NoResult =>
          /\ pc \in {"done", "error"}
          /\ builds = Len(bits) /\ execs = Len(bits)
          /\ Len(received_bits) = Len(bits) /\ Len(relayed) = Len(bits)

C18_Once ==
    /\ pc # "start" => pc' # "start" /\ bits' = bits
    /\ result # NoResult => result' = result

C18_TerminatesInOrder ==
    /\ <>(pc \in {"done", "error"})
    /\ []C18_Order
    /\ [][C18_Once]_vars

C18_Witness ==
    /\ pc = "done" /\ Len(bits) = 16 /\ execs = 16 /\ Len(received_bits) = 16
    /\ result # NoResult

\* C19: measuring both qubits of the Bell pair gives 00 or 11, never 01 or
\* 10, and 00 and 11 have the same weight.
RECURSIVE DictSum(_, _)
DictSum(d, K) ==
    IF K = {} THEN 0
    ELSE LET k == CHOOSE x \in K : TRUE IN d[k] + DictSum(d, K \ {k})

C19_BellOutcomes ==
    demo = "bell_counts" =>
        /\ DOMAIN demo_counts \subseteq {<<"0", "0">>, <<"1", "1">>}
        /\ DictSum(demo_counts, DOMAIN demo_counts) = shot
        /\ (ip >= 1 /\ ip <= Len(qc) /\ qc[ip].op = "measure" /\ qc[ip].q = 0) =>
              /\ JointWeight(amp, 0, 0) = JointWeight(amp, 1, 1)
              /\ JointWeight(amp, 0, 0) > 0
              /\ JointWeight(amp, 0, 1) = 0 /\ JointWeight(amp, 1, 0) = 0
        /\ ip > Len(qc) => creg[0] = creg[1]

C19_Witness ==
    /\ demo = "bell_counts" /\ shot >= 2
    /\ DOMAIN demo_counts = {<<"0", "0">>, <<"1", "1">>}

\* C20: in the circuit that measures only qubit 0 of the Bell pair, a run
\* that reads 0 leaves the two qubits in |00> and a run that reads 1 leaves
\* them in |11>.
IsKet(sv, s) == sv.vec[s] > 0 /\ \A t \in DOMAIN sv.vec : t # s => sv.vec[t] = 0

C20_Collapse ==
    demo = "bell_collapse" =>
        /\ \A k \in DOMAIN demo_counts :
              /\ k[1] \in {<<"0">>, <<"1">>}
              /\ k[1] = <<"0">> => IsKet(k[2], 0)
              /\ k[1] = <<"1">> => IsKet(k[2], 3)
        /\ ip > Len(qc) => IsKet(StateVector(amp), IF creg[0] = 1 THEN 3 ELSE 0)

C20_Witness ==
    /\ demo = "bell_collapse" /\ shot >= 2
    /\ \E k \in DOMAIN demo_counts : k[1] = <<"1">> /\ IsKet(k[2], 3)
    /\ \E k \in DOMAIN demo_counts : k[1] = <<"0">> /\ IsKet(k[2], 0)

\* C21: the expression of input_3sat is true exactly for the assignments
\* (v1, v2, v3) = 000, 101 and 110 and false for the other five, so it has
\* exactly three satisfying assignments.
StatedSolutions == {<<0, 0, 0>>, <<1, 0, 1>>, <<1, 1, 0>>}

C21_TruthTable ==
    demo = "sat_table" =>
        /\ \A v \in DOMAIN truth_table :
              truth_table[v] = (IF v \in StatedSolutions THEN 1 ELSE 0)
        /\ Cardinality(DOMAIN truth_table) = 8 =>
              Cardinality({v \in DOMAIN truth_table : truth_table[v] = 1}) = 3

C21_Witness ==
    /\ demo = "sat_table"
    /\ Cardinality(DOMAIN truth_table) = 8
    /\ \E v \in DOMAIN truth_table : truth_table[v] = 1
    /\ \E v \in DOMAIN truth_table : truth_table[v] = 0

\* C22: in the universe-splitting notebook the single-shot result holds
\* exactly one outcome, "0" or "1", with count 1, and exactly one image is
\* displayed: the red one iff the outcome is 0, the blue one iff it is 1.
C22_OneOutcomeOneImage ==
    demo = "universe" =>
        /\ Len(displayed) <= 1
        /\ shot = 1 =>
              /\ DOMAIN demo_counts \in {{<<"0">>}, {<<"1">>}}
              /\ \A k \in DOMAIN demo_counts : demo_counts[k] = 1
              /\ ip = 0 => DOMAIN demo_counts = {<<ClChar(creg[0])>>}
        /\ pc = "demo_done" =>
              /\ shot = 1 /\ Len(displayed) = 1
              /\ displayed[1] \in {red_img, blue_img}
              /\ displayed[1] = red_img <=> DOMAIN demo_counts = {<<"0">>}
              /\ displayed[1] = blue_img <=> DOMAIN demo_counts = {<<"1">>}

C22_Witness ==
    /\ demo = "universe" /\ pc = "demo_done"
    /\ DOMAIN demo_counts = {<<"1">>}
    /\ displayed = <<blue_img>>

\* C23: between Alice's two measurements and bob_gates, Bob's qubit 2 is
\* in the basis state (payload XOR crx), crx being the outcome for Alice's
\* half of the pair (qubit 1); its amplitude is negative only when the
\* outcome for qubit 0 (crz) is 1, and is negative then for payload 1:
\* the rows 00, 01, 10, 11 of the notebook's table with (a, b) = (1, 0)
\* and (0, 1).
CountOf(t, by) == Cardinality({j \in DOMAIN t : t[j] = by})
BeforeBob ==
    /\ pc = "exec"
    /\ CountOf(trace, "measure_and_send") = 2
    /\ CountOf(trace, "bob_gates") = 0

C23_BobBeforeCorrection ==
    BeforeBob =>
        /\ Definite(amp, 2, (value + creg[1]) % 2)
        /\ \E s \in DOMAIN amp : amp[s] # 0
        /\ \A s \in DOMAIN amp : amp[s] < 0 => creg[0] = 1
        /\ (value = 1 /\ creg[0] = 1) => \E s \in DOMAIN amp : amp[s] < 0

C23_Witness ==
    /\ BeforeBob /\ value = 1 /\ creg[0] = 1 /\ creg[1] = 1
    /\ Definite(amp, 2, 0)
    /\ \E s \in DOMAIN amp : amp[s] < 0

\* C24: once Alice's measurements are done, qubit 0 is in the basis state
\* crz and qubit 1 in the basis state crx, the state of the three qubits is
\* a single basis state (nothing is entangled any more), and qubit 0 does
\* not carry the payload: when it is measured, 0 and 1 have the same
\* nonzero weight whatever the payload is.
AliceDone ==
    /\ pc = "exec"
    /\ \E j \in 1..(ip - 1) : qc[j].by = "measure_and_send"
    /\ \A j \in ip..Len(qc) : qc[j].by # "measure_and_send"

C24_ResourcesConsumed ==
    /\ AliceDone =>
          /\ Definite(amp, 0, creg[0])
          /\ Definite(amp, 1, creg[1])
          /\ Cardinality({s \in DOMAIN amp : amp[s] # 0}) = 1
    /\ AtAliceMeasure(0) =>
          /\ Weight(amp, 0, 0) = Weight(amp, 0, 1)
          /\ Weight(amp, 0, 0) > 0

C24_Witness ==
    /\ AliceDone /\ value = 1 /\ creg[0] = 0 /\ creg[1] = 1
    /\ Definite(amp, 0, 0) /\ Definite(amp, 1, 1)
    /\ Cardinality({s \in DOMAIN amp : amp[s] # 0}) = 1

\* C25: the reduction of the counts of the test cell maps each value of
\* the output bit to the total number of shots whose output bit had that
\* value, so the reduced counts sum to the number of shots.
C25_ReducedSumsToShots ==
    (demo = "teleport_counts" /\ pc = "demo_done") =>
        /\ DictSum(reduced, DOMAIN reduced) = shot
        /\ \A b \in DOMAIN reduced :
              reduced[b] = DictSum(demo_counts,
                                   {k \in DOMAIN demo_counts : SubSeq(k, 1, 1) = b})

\* C26: the backend chosen for the SAT solver is one of the provider's
\* backends, is not a simulator, is operational and has at least nqubits
\* qubits, and no backend that satisfies these three conditions has fewer
\* pending jobs; the selection fails only when no backend satisfies them.
Eligible(x) == x.n_qubits >= nqubits /\ x.simulator = FALSE /\ x.operational = TRUE

C26_BackendSatisfiesFilter ==
    (demo = "least_busy" /\ pc = "demo_done") =>
        /\ backend.found =>
              /\ \E k \in 1..Len(provider) : provider[k] = backend.b
              /\ Eligible(backend.b)
              /\ \A k \in 1..Len(provider) :
                    Eligible(provider[k]) =>
                        backend.b.pending_jobs <= provider[k].pending_jobs
        /\ ~backend.found =>
              /\ backend.err = "IBMQError"
              /\ \A k \in 1..Len(provider) : ~Eligible(provider[k])

C26_Witness ==
    /\ demo = "least_busy" /\ pc = "demo_done" /\ backend.found
    /\ Len(provider) = 2
    /\ \E k \in 1..Len(provider) :
          /\ provider[k].pending_jobs < backend.b.pending_jobs
          /\ provider[k].n_qubits < nqubits
          /\ ~provider[k].simulator /\ provider[k].operational

\* C27: the bit appended for a relay is the value of the output register,
\* which holds the measurement of qubit 2, and not the value of crz or of
\* crx: a finished shot has three classical bits, its key reads output,
\* crx, crz from left to right, and the character appended to
\* received_bits is the first one.
C27_Key ==
    ShotDone =>
        /\ DOMAIN creg = 0..2
        /\ Definite(amp, 2, creg[2])
        /\ LET key == CountsKey(creg)
           IN /\ Len(SelectSeq(key, LAMBDA c : c \in {"0", "1"})) = 3
              /\ key[1] = ClChar(creg[RegBit("output")])
              /\ key[3] = ClChar(creg[RegBit("crx")])
              /\ key[5] = ClChar(creg[RegBit("crz")])

C27_Step ==
    (pc = "exec" /\ pc' = "loop") =>
        received_bits' = Append(received_bits, ClChar(creg[2]))

C27_OutputBitAppended == []C27_Key /\ [][C27_Step]_vars

C27_Witness ==
    /\ pc = "loop" /\ received_bits # << >>
    /\ creg[2] = 1 /\ creg[1] = 0 /\ creg[0] = 0
    /\ received_bits[Len(received_bits)] = "1"

\* C28: loop invariant of send_quantum_message: when k bits have been
\* relayed (the loop is at its bit k + 1), received_bits has k characters,
\* each "0" or "1", and on the ideal simulator they are the first k bits of
\* text_to_bits(message); when the loop is over received_bits is as long
\* as text_to_bits(message).
InLoop == pc \in {"loop", "built", "exec", "done", "error"}
LoopOver == pc \in {"done", "error"} \/ (pc = "loop" /\ i > Len(bits))

C28_LoopInvariant ==
    /\ InLoop =>
          /\ Len(received_bits) = i - 1
          /\ \A j \in 1..Len(received_bits) : received_bits[j] \in {"0", "1"}
          /\ Len(received_bits) <= Len(text_to_bits(message))
          /\ received_bits = SubSeq(text_to_bits(message), 1, i - 1)
    /\ LoopOver => Len(received_bits) = Len(text_to_bits(message))

C28_Witness ==
    /\ pc = "exec" /\ ShotDone
    /\ Len(text_to_bits(message)) = 16
    /\ Len(received_bits) = 11 /\ i = 12
    /\ received_bits = SubSeq(text_to_bits(message), 1, 11)
    /\ \E j \in 1..11 : received_bits[j] = "1"

====
